---- MODULE Spec2Model ----
(***************************************************************************)
(* Model of the statistical-arbitrage engine of NEXORA:                    *)
(*   strategies/statistical_arbitrage.py          (run_backtest)           *)
(*   strategies/statistical_arbitrage_cluster.py  (StatArbCluster)         *)
(*   ai/cointegration/johansen_module.py          (JohansenCointegration)  *)
(*                                                                         *)
(* Conventions.                                                            *)
(*  - Python index i (0-based) is TLA+ index i+1: sequences are 1-based.   *)
(*    The loop counter i of the model holds the Python value.              *)
(*  - A float is a pair <<n, d>> in lowest terms with d >= 0: the exact    *)
(*    rational n/d when d > 0, and the IEEE specials when d = 0:           *)
(*    <<0,0>> is NaN, <<1,0>> is +inf, <<-1,0>> is -inf.                   *)
(*  - A standard deviation is held as its square (the variance) and a      *)
(*    z-score as its signed square sgn(z)*z^2; x |-> sgn(x)*x^2 is a       *)
(*    strictly increasing bijection, so every comparison of the code is    *)
(*    decided exactly after mapping the threshold the same way (SSq).      *)
(*  - The results of the statsmodels tests (coint, coint_johansen) are     *)
(*    inputs of the model: each call draws the library's answer from a     *)
(*    small set, a raised exception included.                              *)
(***************************************************************************)
EXTENDS Integers, Sequences, FiniteSets, TLC

\* ------------------------------------------------------------------ bounds
\* Longest price series of a run_backtest call.
MaxLen == 4

\* ------------------------------------------------------------- float values
NaN == <<0, 0>>

Abs(a) == IF a < 0 THEN -a ELSE a

Sgn(a) == IF a > 0 THEN 1 ELSE IF a < 0 THEN -1 ELSE 0

RECURSIVE GCD(_, _)
GCD(a, b) == IF b = 0 THEN a ELSE GCD(b, a % b)

\* The float n/d (IEEE: 0/0 is NaN, n/0 is +-inf).
Frac(n, d) ==
    IF d = 0 THEN <<Sgn(n), 0>>
    ELSE LET g == GCD(Abs(n), Abs(d))
             s == Sgn(d)
         IN  <<(s * n) \div g, (s * d) \div g>>

FInt(k) == <<k, 1>>

IsNaN(a) == a = NaN

IsFinite(a) == a[2] > 0

FNeg(a) == <<-a[1], a[2]>>

FAbs(a) == <<Abs(a[1]), a[2]>>

FSub(a, b) ==
    IF IsNaN(a) \/ IsNaN(b) THEN NaN
    ELSE IF ~IsFinite(a) /\ ~IsFinite(b) THEN (IF a = b THEN NaN ELSE a)
    ELSE IF ~IsFinite(a) THEN a
    ELSE IF ~IsFinite(b) THEN FNeg(b)
    ELSE Frac(a[1] * b[2] - b[1] * a[2], a[2] * b[2])

FMul(a, b) ==
    IF IsNaN(a) \/ IsNaN(b) THEN NaN
    ELSE IF IsFinite(a) /\ IsFinite(b) THEN Frac(a[1] * b[1], a[2] * b[2])
    ELSE <<Sgn(a[1]) * Sgn(b[1]), 0>>

FDiv(a, b) ==
    IF IsNaN(a) \/ IsNaN(b) THEN NaN
    ELSE IF ~IsFinite(a) /\ ~IsFinite(b) THEN NaN
    ELSE IF ~IsFinite(a) THEN <<a[1] * (IF b[1] < 0 THEN -1 ELSE 1), 0>>
    ELSE IF ~IsFinite(b) THEN <<0, 1>>
    ELSE Frac(a[1] * b[2], a[2] * b[1])

\* a < b on floats: false as soon as one side is NaN.
FLess(a, b) ==
    IF IsNaN(a) \/ IsNaN(b) THEN FALSE
    ELSE IF ~IsFinite(a) /\ ~IsFinite(b) THEN a[1] < b[1]
    ELSE a[1] * b[2] < b[1] * a[2]

\* The signed square sgn(a) * a^2 of a float.
SSq(a) ==
    IF IsNaN(a) THEN NaN
    ELSE IF ~IsFinite(a) THEN a
    ELSE <<Sgn(a[1]) * a[1] * a[1], a[2] * a[2]>>

\* ------------------------------------------------------ sequence helpers
Py(s, i) == s[i + 1]

\* Python slice s[lo:hi] for 0 <= lo <= hi <= len(s).
Slice(s, lo, hi) == SubSeq(s, lo + 1, hi)

\* An array built element by element; numpy and pandas evaluate it at once.
Array(f) == f \o <<>>

RECURSIVE SumTo(_, _)
SumTo(s, k) == IF k = 0 THEN 0 ELSE s[k] + SumTo(s, k - 1)

Sum(s) == SumTo(s, Len(s))

Prod2(s, t) == Array([k \in 1..Len(s) |-> s[k] * t[k]])

RECURSIVE FSumTo(_, _)
FSumTo(s, k) ==
    IF k = 0 THEN <<0, 1>> ELSE FSub(FSumTo(s, k - 1), FNeg(s[k]))

FSum(s) == FSumTo(s, Len(s))

RECURSIVE LastValid(_, _)
\* pandas ffill: the last defined value at or before position k, NaN if none.
LastValid(s, k) ==
    IF k = 0 THEN NaN
    ELSE IF ~IsNaN(s[k]) THEN s[k]
    ELSE LastValid(s, k - 1)

RECURSIVE NextValid(_, _)
\* pandas bfill: the first defined value at or after position k, NaN if none.
NextValid(s, k) ==
    IF k > Len(s) THEN NaN
    ELSE IF ~IsNaN(s[k]) THEN s[k]
    ELSE NextValid(s, k + 1)

Ffill(s) == Array([k \in 1..Len(s) |-> LastValid(s, k)])

Bfill(s) == Array([k \in 1..Len(s) |-> NextValid(s, k)])

\* ---------------------------------------------- statsmodels / pandas steps
\* add_constant(has_constant='skip') returns a window that is constant and
\* non-zero unchanged, without prepending the column of ones.
HasConstant(xw) ==
    /\ Len(xw) > 0
    /\ \A k \in 1..Len(xw) : xw[k] = xw[1]
    /\ xw[1] # 0

\* The slope params[1] of OLS(yw, [1, xw]).fit() (pinv: 0 when xw is all 0).
OLSSlope(xw, yw) ==
    LET w == Len(xw)
        den == w * Sum(Prod2(xw, xw)) - Sum(xw) * Sum(xw)
    IN  IF den = 0 THEN <<0, 1>>
        ELSE Frac(w * Sum(Prod2(xw, yw)) - Sum(xw) * Sum(yw), den)

\* Variant: the window x[i - window + 1 : i + 1], which reads index i.
BetaWindowInclusive(s, i, window) == Slice(s, i - window + 1, i + 1)

\* The window of _rolling_beta at Python index i: x[i - window : i].
BetaWindow(s, i, window) == Slice(s, i - window, i)

\* _rolling_beta: raised when model.params[1] does not exist (the design
\* matrix of a constant window has one column), else the betas array.
RollingBeta(xs, ys, window) ==
    LET n == Len(xs)
    IN  [raised |-> \E i \in window..(n - 1) :
                        HasConstant(BetaWindow(xs, i, window)),
         betas  |-> Array([k \in 1..n |->
                        IF k - 1 >= window
                        THEN OLSSlope(BetaWindow(xs, k - 1, window),
                                      BetaWindow(ys, k - 1, window))
                        ELSE NaN])]

\* .ffill().bfill() of line 75.
FillBeta(bs) == Bfill(Ffill(bs))

\* spread = y - beta * x (line 76).
Spread(xs, ys, bs) ==
    Array([k \in 1..Len(xs) |-> FSub(FInt(ys[k]), FMul(bs[k], FInt(xs[k])))])

\* The window of Series.rolling(w) ending at position k (inclusive).
RollWindow(s, k, w) == SubSeq(s, k - w + 1, k)

\* Series.rolling(w).mean(): NaN until w values are present.
RollingMean(s, w) ==
    Array([k \in 1..Len(s) |->
        IF k < w THEN NaN ELSE FDiv(FSum(RollWindow(s, k, w)), FInt(w))])

\* Series.rolling(w).std() squared (ddof = 1): NaN until w values are present.
RollingVar(s, w) ==
    Array([k \in 1..Len(s) |->
        IF k < w THEN NaN
        ELSE LET win == RollWindow(s, k, w)
                 m   == FDiv(FSum(win), FInt(w))
                 dev == Array([j \in 1..w |->
                            LET d == FSub(win[j], m) IN FMul(d, d)])
             IN  FDiv(FSum(dev), FInt(w - 1))])

\* Variant: a zero deviation is answered by a z-score of 0 instead of NaN.
ZScoreGuarded(sp, mean, var) ==
    Array([k \in 1..Len(sp) |->
        IF var[k] = <<0, 1>> THEN <<0, 1>>
        ELSE FDiv(SSq(FSub(sp[k], mean[k])), var[k])])

\* zscore = (spread - spread_mean) / spread_std (line 81), signed square.
ZScore(sp, mean, var) ==
    Array([k \in 1..Len(sp) |-> FDiv(SSq(FSub(sp[k], mean[k])), var[k])])

\* Series `op` ndarray: numpy broadcasts, then the result must fit the
\* index of the Series; anything else raises ValueError.
SeriesOpOK(lenSeries, lenArray) == lenArray = lenSeries \/ lenArray = 1

\* Element k of an ndarray broadcast against a longer Series.
Bcast(arr, k) == IF Len(arr) = 1 THEN arr[1] ELSE arr[k]

\* pvals of line 88: `lookback` NaNs followed by the computed p-values.
PadPvals(lb, computed) == [k \in 1..lb |-> NaN] \o computed

\* coint_mask = pvals < coint_pval (line 89).
CointMask(ps, thr) == Array([k \in 1..Len(ps) |-> FLess(ps[k], thr)])

\* Variant: the long entry without the cointegration mask.
LongEntryNoMask(zs, mask, ez) ==
    Array([k \in 1..Len(zs) |-> FLess(zs[k], SSq(FNeg(ez)))])

\* long_entry = (zscore < -entry_z) & coint_mask (line 93).
LongEntry(zs, mask, ez) ==
    Array([k \in 1..Len(zs) |->
        FLess(zs[k], SSq(FNeg(ez))) /\ Bcast(mask, k)])

\* Variant: the short entry compares in the direction of the long entry.
ShortEntryBelow(zs, mask, ez) ==
    Array([k \in 1..Len(zs) |-> FLess(zs[k], SSq(ez)) /\ Bcast(mask, k)])

\* short_entry = (zscore > entry_z) & coint_mask (line 94).
ShortEntry(zs, mask, ez) ==
    Array([k \in 1..Len(zs) |-> FLess(SSq(ez), zs[k]) /\ Bcast(mask, k)])

\* Variant: the exit signal ignores the cointegration mask.
ExitTradeNoMask(zs, mask, xz) ==
    Array([k \in 1..Len(zs) |-> FLess(FAbs(zs[k]), SSq(xz))])

\* exit_trade = (np.abs(zscore) < exit_z) | (~coint_mask) (line 95).
ExitTrade(zs, mask, xz) ==
    Array([k \in 1..Len(zs) |->
        FLess(FAbs(zs[k]), SSq(xz)) \/ ~Bcast(mask, k)])

\* positions = np.zeros(len(x)) (line 92).
Zeros(n) == Array([k \in 1..n |-> 0])

\* Variant: the short entry is tested before the long entry.
NextPositionShortFirst(le, se, et, pos, i) ==
    IF Py(se, i) THEN -1
    ELSE IF Py(le, i) THEN 1
    ELSE IF Py(et, i) THEN 0
    ELSE Py(pos, i - 1)

\* Variant: an entry adds to the position held instead of setting it.
NextPositionAdd(le, se, et, pos, i) ==
    IF Py(le, i) THEN Py(pos, i - 1) + 1
    ELSE IF Py(se, i) THEN Py(pos, i - 1) - 1
    ELSE IF Py(et, i) THEN 0
    ELSE Py(pos, i - 1)

\* Variant: the exit branch is missing.
NextPositionNoExit(le, se, et, pos, i) ==
    IF Py(le, i) THEN 1
    ELSE IF Py(se, i) THEN -1
    ELSE Py(pos, i - 1)

\* The body of the position loop (lines 98-105) at Python index i.
NextPosition(le, se, et, pos, i) ==
    IF Py(le, i) THEN 1
    ELSE IF Py(se, i) THEN -1
    ELSE IF Py(et, i) THEN 0
    ELSE Py(pos, i - 1)

\* ------------------------------------------------------------------ state
\* One call of StatisticalArbitrageStrategy.run_backtest.
VARIABLES
    self,          \* the StatisticalArbitrageStrategy instance's fields
    pc,            \* where the current call stands
    x, y,          \* data["X"]["close"].values, data["Y"]["close"].values
    lookback, entry_z, exit_z, coint_pval,   \* locals read from params
    betas,         \* what _rolling_beta returned, before the fill
    beta,          \* betas after .ffill().bfill()
    spread, spread_mean, spread_std, zscore,
    pvals,         \* the list, then (after line 88) the padded array
    coint_mask, long_entry, short_entry, exit_trade,
    positions,
    i,             \* loop counter (Python value)
    ret            \* what the call handed to its caller

\* One call of StatArbCluster.evaluate_cluster.
VARIABLES
    engine,        \* the StatArbCluster instance's fields
    cpc,           \* where the current call stands
    prices,        \* the cluster's table of price columns
    result         \* the result dictionary

backtestVars ==
    <<self, pc, x, y, lookback, entry_z, exit_z, coint_pval, betas, beta,
      spread, spread_mean, spread_std, zscore, pvals, coint_mask,
      long_entry, short_entry, exit_trade, positions, i, ret>>

\* One call of StatArbCluster.filter_valid_clusters.
VARIABLES
    cluster_dict,    \* the mapping passed in: entry n is the data of name n
    valid_clusters,  \* the mapping being built: name -> result
    fi               \* the entry the loop is at

filterVars == <<cluster_dict, valid_clusters, fi>>

clusterVars == <<engine, cpc, prices, result, filterVars>>

\* One JohansenCointegration object and the calls made on it.
VARIABLES
    joh,           \* the object's fields, result among them
    jret           \* the last call on the object and how it ended

johansenVars == <<joh, jret>>

\* Calls of StatArbCluster.evaluate_cluster in flight on one shared engine.
VARIABLES
    calls,         \* per caller: where its call stands, its table, its result
    objects        \* the JohansenCointegration objects: their result field

concurrentVars == <<calls, objects>>

vars == <<backtestVars, clusterVars, johansenVars, concurrentVars>>

signalVars == <<coint_mask, long_entry, short_entry, exit_trade>>

spreadVars == <<betas, beta, spread, spread_mean, spread_std, zscore>>

paramVars == <<x, y, lookback, entry_z, exit_z, coint_pval>>

\* ----------------------------------------------------------------- inputs
Prices == {1, 2}

\* Equal-length close-price columns of data["X"] and data["Y"].
Series == UNION {[1..n -> Prices] : n \in 0..MaxLen}

\* StatisticalArbitrageStrategy(): the constructor's defaults, with the two
\* lengths scaled to the series of the model (lookback 100, min_valid 50).
StrategyDefaults ==
    [lookback |-> 3, entry_z |-> FInt(2), exit_z |-> Frac(1, 2),
     coint_pval |-> Frac(5, 100), min_valid |-> 1]

\* Values a caller passes under each key of params; a key may be absent.
ParamValues ==
    [lookback   |-> {1, 2},
     entry_z    |-> {Frac(1, 2), Frac(-1, 2)},
     exit_z     |-> {FInt(1), Frac(1, 4)},
     coint_pval |-> {Frac(1, 10)}]

ParamDicts ==
    {a @@ b @@ c @@ d :
        a \in {<<>>} \cup {[lookback |-> v] : v \in ParamValues.lookback},
        b \in {<<>>} \cup {[entry_z |-> v] : v \in ParamValues.entry_z},
        c \in {<<>>} \cup {[exit_z |-> v] : v \in ParamValues.exit_z},
        d \in {<<>>} \cup {[coint_pval |-> v] : v \in ParamValues.coint_pval}}

\* dict.get(key, default)
Get(dict, key, default) == IF key \in DOMAIN dict THEN dict[key] ELSE default

\* What statsmodels' coint answers for one window: a p-value, or an exception.
CointPvalues == {Frac(1, 100), Frac(5, 100)}

NoRet == [kind |-> "none"]

Raise(exc, line) == [kind |-> "raise", exc |-> exc, line |-> line]

\* ---------------------------------------------------------------- actions
\* StatArbCluster(): the constructor's defaults.
ClusterDefaults ==
    [p_threshold |-> Frac(5, 100), min_rank |-> 1, max_assets |-> 6]

BacktestIdle ==
    /\ pc = "idle"
    /\ x = <<>> /\ y = <<>>
    /\ lookback = 0 /\ entry_z = NaN /\ exit_z = NaN /\ coint_pval = NaN
    /\ betas = <<>> /\ beta = <<>>
    /\ spread = <<>> /\ spread_mean = <<>> /\ spread_std = <<>> /\ zscore = <<>>
    /\ pvals = <<>>
    /\ coint_mask = <<>> /\ long_entry = <<>> /\ short_entry = <<>>
    /\ exit_trade = <<>>
    /\ positions = <<>>
    /\ i = 0
    /\ ret = NoRet

ClusterIdle ==
    /\ cpc = "idle"
    /\ prices = [n_assets |-> 0]
    /\ result = <<>>
    /\ cluster_dict = <<>>
    /\ valid_clusters = <<>>
    /\ fi = 0

\* Python's None
None == [none |-> TRUE]

\* JohansenCointegration(): the constructor's defaults (lines 15-27).
JohansenDefaults ==
    [det_order |-> 0, k_ar_diff |-> 1, significance |-> Frac(5, 100),
     result |-> None]

JohansenIdle ==
    /\ joh = JohansenDefaults
    /\ jret = NoRet

\* The threads that call evaluate_cluster.
Callers == {1, 2}

\* A caller with no call in flight.
IdleCall == [cpc |-> "idle", prices |-> [n_assets |-> 0], result |-> <<>>]

ConcurrentIdle ==
    /\ calls = [c \in Callers |-> IdleCall]
    /\ objects = [c \in Callers |-> None]

Init ==
    /\ self = StrategyDefaults
    /\ engine = ClusterDefaults
    /\ BacktestIdle
    /\ ClusterIdle
    /\ JohansenIdle
    /\ ConcurrentIdle

\* Variant: a series of exactly min_valid entries is turned away too.
TooShortInclusive(xs, obj) == Len(xs) <= obj.min_valid

\* len(x) < self.min_valid (line 71)
TooShort(xs, obj) == Len(xs) < obj.min_valid

\* run_backtest, lines 65-72: read the parameters and the data; a series
\* shorter than min_valid returns at once.
RunBacktest ==
    /\ pc = "idle"
    /\ \E params \in ParamDicts, xs \in Series, ys \in Series :
        /\ Len(xs) = Len(ys)
        /\ lookback' = Get(params, "lookback", self.lookback)
        /\ entry_z' = Get(params, "entry_z", self.entry_z)
        /\ exit_z' = Get(params, "exit_z", self.exit_z)
        /\ coint_pval' = Get(params, "coint_pval", self.coint_pval)
        /\ x' = xs /\ y' = ys
        /\ IF TooShort(xs, self)
           THEN /\ pc' = "done"
                /\ ret' = [kind |-> "metrics", total_return |-> FInt(0),
                           sharpe |-> FInt(0), trades |-> 0]
           ELSE /\ pc' = "beta"
                /\ ret' = ret
    /\ UNCHANGED <<self, spreadVars, pvals, signalVars, positions, i>>
    /\ UNCHANGED <<clusterVars, johansenVars>>
    /\ UNCHANGED concurrentVars

\* Lines 75-81: the filled hedge ratio, the spread and its rolling z-score.
SpreadZScore ==
    /\ pc = "beta"
    /\ LET rb == RollingBeta(x, y, lookback)
           b  == FillBeta(rb.betas)
           sp == Spread(x, y, b)
           m  == RollingMean(sp, lookback)
           v  == RollingVar(sp, lookback)
       IN  IF rb.raised
           THEN /\ pc' = "raised"
                /\ ret' = Raise("IndexError", 61)
                /\ UNCHANGED <<spreadVars, i>>
           ELSE /\ betas' = rb.betas
                /\ beta' = b
                /\ spread' = sp
                /\ spread_mean' = m
                /\ spread_std' = v
                /\ zscore' = ZScore(sp, m, v)
                /\ pc' = "coint"
                /\ i' = lookback
                /\ ret' = ret
    /\ UNCHANGED <<self, paramVars, pvals, signalVars, positions>>
    /\ UNCHANGED <<clusterVars, johansenVars>>
    /\ UNCHANGED concurrentVars

\* Lines 85-87, one iteration: the cointegration test of the window
\* x[i - lookback : i], y[i - lookback : i] answers a p-value ...
CointIter ==
    /\ pc = "coint"
    /\ i < Len(x)
    /\ \E pval \in CointPvalues : pvals' = Append(pvals, pval)
    /\ i' = i + 1
    /\ UNCHANGED <<self, pc, paramVars, spreadVars, signalVars, positions, ret>>
    /\ UNCHANGED <<clusterVars, johansenVars>>
    /\ UNCHANGED concurrentVars

\* ... or raises, which run_backtest does not catch.
CointRaise ==
    /\ pc = "coint"
    /\ i < Len(x)
    /\ pc' = "raised"
    /\ ret' = Raise("ValueError", 86)
    /\ UNCHANGED <<self, paramVars, spreadVars, pvals, signalVars, positions, i>>
    /\ UNCHANGED <<clusterVars, johansenVars>>
    /\ UNCHANGED concurrentVars

\* Lines 88-95: pad the p-values, derive the mask and the three signals.
Signals ==
    /\ pc = "coint"
    /\ i >= Len(x)
    /\ LET ps   == PadPvals(lookback, pvals)
           mask == CointMask(ps, coint_pval)
       IN  /\ pvals' = ps
           /\ coint_mask' = mask
           /\ IF SeriesOpOK(Len(zscore), Len(mask))
              THEN /\ long_entry' = LongEntry(zscore, mask, entry_z)
                   /\ short_entry' = ShortEntry(zscore, mask, entry_z)
                   /\ exit_trade' = ExitTrade(zscore, mask, exit_z)
                   /\ positions' = Zeros(Len(x))
                   /\ pc' = "positions"
                   /\ i' = 1
                   /\ ret' = ret
              ELSE /\ pc' = "raised"
                   /\ ret' = Raise("ValueError", 93)
                   /\ positions' = Zeros(Len(x))
                   /\ UNCHANGED <<long_entry, short_entry, exit_trade, i>>
    /\ UNCHANGED <<self, paramVars, spreadVars>>
    /\ UNCHANGED <<clusterVars, johansenVars>>
    /\ UNCHANGED concurrentVars

\* Lines 97-105, one iteration of the position loop.
PositionIter ==
    /\ pc = "positions"
    /\ i < Len(x)
    /\ positions' = [positions EXCEPT ![i + 1] =
                        NextPosition(long_entry, short_entry, exit_trade,
                                     positions, i)]
    /\ i' = i + 1
    /\ UNCHANGED <<self, pc, paramVars, spreadVars, pvals, signalVars, ret>>
    /\ UNCHANGED <<clusterVars, johansenVars>>
    /\ UNCHANGED concurrentVars

\* Python round(a, nd): to nd decimals, halves to the even neighbour.
Round(a, nd) ==
    IF ~IsFinite(a) THEN a
    ELSE LET m   == 10 ^ nd
             num == a[1] * m
             q   == num \div a[2]
             r   == num - q * a[2]
             up  == 2 * r > a[2] \/ (2 * r = a[2] /\ q % 2 = 1)
         IN  Frac(IF up THEN q + 1 ELSE q, m)

\* .fillna(0)
FillNa0(s) ==
    Array([k \in 1..Len(s) |-> IF IsNaN(s[k]) THEN <<0, 1>> ELSE s[k]])

\* pd.Series(prices).pct_change()
PctChange(ps) ==
    Array([k \in 1..Len(ps) |->
        IF k = 1 THEN NaN ELSE FSub(Frac(ps[k], ps[k - 1]), FInt(1))])

\* Series.diff()
Diff(s) ==
    Array([k \in 1..Len(s) |->
        IF k = 1 THEN NaN ELSE FSub(s[k], s[k - 1])])

\* s[:-1]
DropLast(s) == IF Len(s) = 0 THEN s ELSE SubSeq(s, 1, Len(s) - 1)

\* positions[:-1] * (diff_y - hedge * diff_x), then .fillna(0) (lines 116-117).
PortRet(pos, dy, hedge, dx) ==
    FillNa0([k \in 1..Len(hedge) |->
        FMul(FInt(pos[k]),
             FSub(Bcast(dy, k), FMul(hedge[k], Bcast(dx, k))))])

RECURSIVE ProdOnePlus(_, _)
\* np.prod(1 + port_ret) over the first k entries.
ProdOnePlus(s, k) ==
    IF k = 0 THEN <<1, 1>>
    ELSE FMul(ProdOnePlus(s, k - 1), FSub(s[k], FInt(-1)))

\* np.mean
Mean(s) == FDiv(FSum(s), FInt(Len(s)))

\* np.std squared (ddof = 0)
PopVar(s) ==
    LET m == Mean(s)
    IN  FDiv(FSum([k \in 1..Len(s) |->
                      LET d == FSub(s[k], m) IN FMul(d, d)]),
             FInt(Len(s)))

\* Lines 121-124, as a signed square and before rounding:
\* mean / std * sqrt(252) when std > 0, else 0.0.
Sharpe(pr) ==
    IF FLess(<<0, 1>>, PopVar(pr))
    THEN FMul(FDiv(SSq(Mean(pr)), PopVar(pr)), FInt(252))
    ELSE <<0, 1>>

\* int(np.sum(np.abs(np.diff(positions)) > 0)) (line 126).
Trades(pos) == Cardinality({k \in 1..(Len(pos) - 1) : pos[k + 1] # pos[k]})

\* np.nanmean of a float array: NaN when no entry is defined.
NanMean(s) ==
    LET valid == {k \in 1..Len(s) : ~IsNaN(s[k])}
    IN  FDiv(FSum([k \in 1..Len(s) |->
                      IF k \in valid THEN s[k] ELSE <<0, 1>>]),
             FInt(Cardinality(valid)))

\* np.nanmean of a boolean array: the share of true entries.
BoolMean(mask) ==
    Frac(Cardinality({k \in 1..Len(mask) : mask[k]}), Len(mask))

\* The dictionary of lines 128-134.
Metrics(pr, pos, bs, mask) ==
    [kind            |-> "metrics",
     total_return    |-> Round(FSub(ProdOnePlus(pr, Len(pr)), FInt(1)), 4),
     sharpe          |-> Sharpe(pr),
     trades          |-> Trades(pos),
     avg_beta        |-> Round(NanMean(bs), 4),
     coint_valid_pct |-> Round(FMul(BoolMean(mask), FInt(100)), 2)]

\* Lines 108-134: returns of the pair, portfolio return, the metrics.
Returns ==
    /\ pc = "positions"
    /\ i >= Len(x)
    /\ LET diff_y == FillNa0(Diff(FillNa0(PctChange(y))))
           diff_x == FillNa0(Diff(FillNa0(PctChange(x))))
           hedge  == DropLast(beta)
       IN  IF SeriesOpOK(Len(hedge), Len(diff_x))
           THEN /\ pc' = "done"
                /\ ret' = Metrics(PortRet(DropLast(positions), diff_y, hedge,
                                          diff_x),
                                  positions, beta, coint_mask)
           ELSE /\ pc' = "raised"
                /\ ret' = Raise("ValueError", 116)
    /\ UNCHANGED <<self, paramVars, spreadVars, pvals, signalVars, positions, i>>
    /\ UNCHANGED <<clusterVars, johansenVars>>
    /\ UNCHANGED concurrentVars

NextBacktest ==
    \/ RunBacktest
    \/ SpreadZScore
    \/ CointIter
    \/ CointRaise
    \/ Signals
    \/ PositionIter
    \/ Returns

SpecBacktest == Init /\ [][NextBacktest]_vars

\* ================================================== StatArbCluster, Johansen
\* Largest number of price columns of a cluster.
MaxAssets == 4

\* The critical-value table cvt of a Johansen result for k series: row j
\* (hypothesized rank j - 1) holds the 90%, 95% and 99% values.
CritTable(k) ==
    [j \in 1..k |->
        <<10 * (k - j) + 2, 10 * (k - j) + 4, 10 * (k - j) + 6>>]

\* Trace statistics lr1 a data set of k series can give: each one below,
\* between, on or above the critical values of its row. lr1[j] is the sum
\* of the terms -T ln(1 - eigenvalue) of the eigenvalues after the first
\* j - 1, taken in descending order, so its decrements never grow.
TraceStats(k) ==
    LET term(t, j) == t[j] - (IF j < k THEN t[j + 1] ELSE 0)
    IN  {t \in {[j \in 1..k |-> 10 * (k - j) + d[j]] :
                    d \in [1..k -> {1, 3, 4, 5, 7}]} :
            \A j \in 1..(k - 1) : term(t, j) >= term(t, j + 1)}

\* What statsmodels answers for a table: coint for two columns (a p-value),
\* coint_johansen for three or more (lr1, cvt, evec), or an exception.
TestOutcomes(k) ==
    IF k < 2 THEN {[raised |-> FALSE]}
    ELSE IF k = 2
    THEN {[raised |-> TRUE]} \cup
         {[raised |-> FALSE, pval |-> p] :
             p \in {Frac(1, 100), Frac(2469, 100000), Frac(5, 100),
                    Frac(1, 10), Frac(1, 2), NaN}}
    ELSE {[raised |-> TRUE]} \cup
         {[raised |-> FALSE, lr1 |-> t, cvt |-> CritTable(k), evec |-> k] :
             t \in TraceStats(k)}

\* A cluster: a DataFrame of n_assets price columns, with the answer the
\* statistical test computes from its data.
Tables ==
    UNION {{[n_assets |-> k, test |-> t] : t \in TestOutcomes(k)} :
              k \in 0..MaxAssets}

\* Constructor arguments of StatArbCluster.
EngineConfigs ==
    [p_threshold : {Frac(5, 100), Frac(1, 10)},
     min_rank    : {0, 1, 2},
     max_assets  : {3, 6}]

\* JohansenCointegration.rank (lines 40-48): the number of trace statistics
\* above the second column of cvt.
JohansenRank(res) ==
    Cardinality({j \in 1..Len(res.lr1) : res.lr1[j] > res.cvt[j][2]})

\* JohansenCointegration.summary (lines 59-68) of a fitted object.
JohansenSummary(res) ==
    [rank             |-> JohansenRank(res),
     trace_stats      |-> res.lr1,
     crit_values_5pct |-> [j \in 1..Len(res.cvt) |-> res.cvt[j][2]],
     eigenvectors     |-> res.evec]

\* n_assets == 2 (line 46)
IsPair(n) == n = 2

\* Variant: the multivariate branch starts at four series.
IsGroupAboveThree(n) == n > 3

\* n_assets >= 3 (line 63)
IsGroup(n) == n >= 3

\* Variant: a p-value equal to the threshold counts as significant.
PairRankInclusive(pval, p_threshold) ==
    IF FLess(p_threshold, pval) THEN 0 ELSE 1

\* rank of the Engle-Granger branch (line 52).
PairRank(pval, p_threshold) == IF FLess(pval, p_threshold) THEN 1 ELSE 0

\* Variant: the handlers of a failed test report the p-value 0.0.
FindCointegratedGroupsZeroPvalue(cfg, table) ==
    IF IsPair(table.n_assets)
    THEN IF table.test.raised
         THEN [method |-> "Engle-Granger", rank |-> 0, pvalue |-> FInt(0),
               error |-> "coint"]
         ELSE [method |-> "Engle-Granger",
               rank   |-> PairRank(table.test.pval, cfg.p_threshold),
               pvalue |-> table.test.pval]
    ELSE IF IsGroup(table.n_assets)
    THEN IF table.test.raised
         THEN [method |-> "Johansen", rank |-> 0, pvalue |-> FInt(0),
               error |-> "coint_johansen"]
         ELSE JohansenSummary(table.test) @@ [method |-> "Johansen"]
    ELSE [method |-> "N/A", rank |-> 0, pvalue |-> FInt(1)]

\* _find_cointegrated_groups (lines 40-74).
FindCointegratedGroups(cfg, table) ==
    IF IsPair(table.n_assets)
    THEN IF table.test.raised
         THEN [method |-> "Engle-Granger", rank |-> 0, pvalue |-> FInt(1),
               error |-> "coint"]
         ELSE [method |-> "Engle-Granger",
               rank   |-> PairRank(table.test.pval, cfg.p_threshold),
               pvalue |-> table.test.pval]
    ELSE IF IsGroup(table.n_assets)
    THEN IF table.test.raised
         THEN [method |-> "Johansen", rank |-> 0, pvalue |-> FInt(1),
               error |-> "coint_johansen"]
         ELSE JohansenSummary(table.test) @@ [method |-> "Johansen"]
    ELSE [method |-> "N/A", rank |-> 0, pvalue |-> FInt(1)]

\* max / min of two floats
FMax(a, b) == IF FLess(a, b) THEN b ELSE a

FMin(a, b) == IF FLess(b, a) THEN b ELSE a

\* Variant: the multivariate score is not capped at 1.
ClusterScoreUnclamped(res) ==
    IF res.method = "Engle-Granger"
    THEN FMax(FInt(0), FSub(FInt(1), Get(res, "pvalue", FInt(1))))
    ELSE IF res.method = "Johansen"
    THEN Frac(Get(res, "rank", 0), 3)
    ELSE FInt(0)

\* _cluster_score (lines 79-89).
ClusterScore(res) ==
    IF res.method = "Engle-Granger"
    THEN FMax(FInt(0), FSub(FInt(1), Get(res, "pvalue", FInt(1))))
    ELSE IF res.method = "Johansen"
    THEN FMin(FInt(1), Frac(Get(res, "rank", 0), 3))
    ELSE FInt(0)

\* Variant: a multivariate result needs more than min_rank relations.
IsValidStrict(res, cfg) ==
    \/ res.method = "Engle-Granger" /\ res.rank = 1
    \/ res.method = "Johansen" /\ res.rank > cfg.min_rank

\* The validity rule of evaluate_cluster (lines 102-104).
IsValid(res, cfg) ==
    \/ res.method = "Engle-Granger" /\ res.rank = 1
    \/ res.method = "Johansen" /\ res.rank >= cfg.min_rank

InitCluster ==
    /\ self = StrategyDefaults
    /\ engine \in EngineConfigs
    /\ BacktestIdle
    /\ ClusterIdle
    /\ JohansenIdle
    /\ ConcurrentIdle

\* evaluate_cluster is called with a table.
EvaluateCluster ==
    /\ cpc = "idle"
    /\ \E t \in Tables : prices' = t
    /\ cpc' = "find"
    /\ UNCHANGED <<engine, result>>
    /\ UNCHANGED filterVars
    /\ UNCHANGED <<backtestVars, johansenVars>>
    /\ UNCHANGED concurrentVars

\* Line 99: result = self._find_cointegrated_groups(prices).
FindGroups ==
    /\ cpc = "find"
    /\ result' = FindCointegratedGroups(engine, prices)
    /\ cpc' = "score"
    /\ UNCHANGED <<engine, prices>>
    /\ UNCHANGED filterVars
    /\ UNCHANGED <<backtestVars, johansenVars>>
    /\ UNCHANGED concurrentVars

\* Lines 100-105: the score, the validity flag, the return.
ScoreCluster ==
    /\ cpc = "score"
    /\ result' = [score |-> Round(ClusterScore(result), 3),
                  valid |-> IsValid(result, engine)] @@ result
    /\ cpc' = "done"
    /\ UNCHANGED <<engine, prices>>
    /\ UNCHANGED filterVars
    /\ UNCHANGED <<backtestVars, johansenVars>>
    /\ UNCHANGED concurrentVars

NextCluster ==
    \/ EvaluateCluster
    \/ FindGroups
    \/ ScoreCluster

SpecCluster == InitCluster /\ [][NextCluster]_vars

\* ------------------------------------------------- filter_valid_clusters
\* Largest number of entries of a mapping handed to filter_valid_clusters.
MaxClusters == 2

\* evaluate_cluster (lines 94-105) as one step.
EvaluateClusterResult(cfg, table) ==
    LET res == FindCointegratedGroups(cfg, table)
    IN  [score |-> Round(ClusterScore(res), 3),
         valid |-> IsValid(res, cfg)] @@ res

\* Values of the mapping: a value that is no DataFrame, or a table of 0 to
\* MaxAssets columns whose test raises, rejects nothing or rejects all.
FilterItems ==
    {[frame |-> FALSE]} \cup
    {[frame |-> TRUE] @@ t :
        t \in {u \in Tables :
                 IF u.n_assets < 2 \/ u.test.raised THEN TRUE
                 ELSE IF u.n_assets = 2
                 THEN u.test.pval \in {Frac(1, 100), Frac(1, 2)}
                 ELSE \E c \in {-1, 1} : \A j \in 1..u.n_assets :
                          u.test.lr1[j] - u.test.cvt[j][2] = c}}

\* The mappings passed in; the names are 1..n in insertion order.
ClusterDicts == UNION {[1..n -> FilterItems] : n \in 0..MaxClusters}

\* Variant: the number of series of a cluster is not bounded.
WithinMaxAssetsUnbounded(data, cfg) == data.frame

\* Variant: a cluster of exactly max_assets series is left out.
WithinMaxAssetsStrict(data, cfg) ==
    data.frame /\ data.n_assets < cfg.max_assets

\* isinstance(data, pd.DataFrame) and data.shape[1] <= self.max_assets
\* (line 114)
WithinMaxAssets(data, cfg) ==
    data.frame /\ data.n_assets <= cfg.max_assets

\* filter_valid_clusters is called with a mapping (line 112).
FilterValidClusters ==
    /\ cpc = "idle"
    /\ \E d \in ClusterDicts : cluster_dict' = d
    /\ valid_clusters' = <<>>
    /\ fi' = 1
    /\ cpc' = "filter"
    /\ UNCHANGED <<engine, prices, result>>
    /\ UNCHANGED <<backtestVars, johansenVars>>
    /\ UNCHANGED concurrentVars

\* One pass of the loop of lines 113-117.
FilterIter ==
    /\ cpc = "filter"
    /\ fi <= Len(cluster_dict)
    /\ LET data == cluster_dict[fi]
       IN  IF WithinMaxAssets(data, engine)
           THEN LET res == EvaluateClusterResult(engine, data)
                IN  valid_clusters' =
                        IF res.valid THEN (fi :> res) @@ valid_clusters
                        ELSE valid_clusters
           ELSE UNCHANGED valid_clusters
    /\ fi' = fi + 1
    /\ UNCHANGED <<engine, cpc, prices, result, cluster_dict>>
    /\ UNCHANGED <<backtestVars, johansenVars>>
    /\ UNCHANGED concurrentVars

\* return valid_clusters (line 118)
FilterReturn ==
    /\ cpc = "filter"
    /\ fi > Len(cluster_dict)
    /\ cpc' = "filtered"
    /\ UNCHANGED <<engine, prices, result, filterVars>>
    /\ UNCHANGED <<backtestVars, johansenVars>>
    /\ UNCHANGED concurrentVars

NextFilter ==
    \/ FilterValidClusters
    \/ FilterIter
    \/ FilterReturn

\* Calls of evaluate_cluster and of filter_valid_clusters on one engine.
SpecFilter == InitCluster /\ [][NextCluster \/ NextFilter]_vars

\* ------------------------------------------------- JohansenCointegration
\* Largest number of columns of a table handed to fit.
MaxSeries == 3

\* Constructor arguments of JohansenCointegration.
JohansenObjects ==
    [det_order    : {0},
     k_ar_diff    : {1},
     significance : {Frac(1, 10), Frac(5, 100), Frac(1, 100)},
     result       : {None}]

\* Arguments of fit: a value that is no DataFrame, or a DataFrame with the
\* answer coint_johansen computes from it (none is computed below three
\* columns).
FitInputs ==
    {[frame |-> FALSE]} \cup
    UNION {{[frame |-> TRUE, n_assets |-> k, test |-> t] :
               t \in IF k < 3 THEN {[raised |-> FALSE]} ELSE TestOutcomes(k)} :
              k \in 0..MaxSeries}

\* A call that returned.
Value(call, v) == [kind |-> "value", call |-> call, value |-> v]

\* A call that raised.
Raised(call, exc, line) == [call |-> call] @@ Raise(exc, line)

InitJohansen ==
    /\ self = StrategyDefaults
    /\ engine = ClusterDefaults
    /\ BacktestIdle
    /\ ClusterIdle
    /\ joh \in JohansenObjects
    /\ jret = NoRet
    /\ ConcurrentIdle

\* Variant: fit forgets the stored result before it looks at the data.
FitClearsFirst ==
    /\ \E data \in FitInputs :
        IF ~data.frame
        THEN /\ jret' = [arg |-> data] @@ Raised("fit", "ValueError", 32)
             /\ joh' = [joh EXCEPT !.result = None]
        ELSE IF data.n_assets < 3
        THEN /\ jret' = [arg |-> data] @@ Raised("fit", "ValueError", 35)
             /\ joh' = [joh EXCEPT !.result = None]
        ELSE IF data.test.raised
        THEN /\ jret' = [arg |-> data] @@ Raised("fit", "Exception", 37)
             /\ joh' = [joh EXCEPT !.result = None]
        ELSE /\ joh' = [joh EXCEPT !.result = data.test]
             /\ jret' = [arg |-> data] @@ Value("fit", data.test)
    /\ UNCHANGED <<backtestVars, clusterVars>>
    /\ UNCHANGED concurrentVars

\* fit (lines 29-38); jret keeps the argument of the call.
Fit ==
    /\ \E data \in FitInputs :
        IF ~data.frame
        THEN /\ jret' = [arg |-> data] @@ Raised("fit", "ValueError", 32)
             /\ UNCHANGED joh
        ELSE IF data.n_assets < 3
        THEN /\ jret' = [arg |-> data] @@ Raised("fit", "ValueError", 35)
             /\ UNCHANGED joh
        ELSE IF data.test.raised
        THEN /\ jret' = [arg |-> data] @@ Raised("fit", "Exception", 37)
             /\ UNCHANGED joh
        ELSE /\ joh' = [joh EXCEPT !.result = data.test]
             /\ jret' = [arg |-> data] @@ Value("fit", data.test)
    /\ UNCHANGED <<backtestVars, clusterVars>>
    /\ UNCHANGED concurrentVars

\* Variant: rank answers 0 for an object that was never fitted.
RankWithoutFitCheck ==
    /\ jret' = IF joh.result = None
               THEN Value("rank", 0)
               ELSE Value("rank", JohansenRank(joh.result))
    /\ UNCHANGED joh
    /\ UNCHANGED <<backtestVars, clusterVars>>
    /\ UNCHANGED concurrentVars

\* rank (lines 40-48).
Rank ==
    /\ jret' = IF joh.result = None
               THEN Raised("rank", "RuntimeError", 43)
               ELSE Value("rank", JohansenRank(joh.result))
    /\ UNCHANGED joh
    /\ UNCHANGED <<backtestVars, clusterVars>>
    /\ UNCHANGED concurrentVars

\* cointegrating_vectors (lines 50-57): one column vec_i per eigenvector.
CointegratingVectors ==
    /\ jret' = IF joh.result = None
               THEN Raised("cointegrating_vectors", "RuntimeError", 53)
               ELSE Value("cointegrating_vectors",
                          [c \in 0..(joh.result.evec - 1) |-> "vec"])
    /\ UNCHANGED joh
    /\ UNCHANGED <<backtestVars, clusterVars>>
    /\ UNCHANGED concurrentVars

\* summary (lines 59-68).
Summary ==
    /\ jret' = IF joh.result = None
               THEN Value("summary", <<>>)
               ELSE Value("summary", JohansenSummary(joh.result))
    /\ UNCHANGED joh
    /\ UNCHANGED <<backtestVars, clusterVars>>
    /\ UNCHANGED concurrentVars

NextJohansen ==
    \/ Fit
    \/ Rank
    \/ CointegratingVectors
    \/ Summary

SpecJohansen == InitJohansen /\ [][NextJohansen]_vars

\* ------------------------------------------------------- the whole engine
\* StatisticalArbitrageStrategy(min_valid=2) and StatArbCluster().
InitEngine ==
    /\ self = [StrategyDefaults EXCEPT !.min_valid = 2]
    /\ engine = ClusterDefaults
    /\ BacktestIdle
    /\ ClusterIdle
    /\ JohansenIdle
    /\ ConcurrentIdle

\* One call: of run_backtest on the strategy, or of evaluate_cluster on the
\* cluster engine.
NextEngine ==
    \/ cpc = "idle" /\ NextBacktest
    \/ pc = "idle" /\ NextCluster

SpecEngine == InitEngine /\ [][NextEngine]_vars

\* ------------------------------------- concurrent calls of evaluate_cluster
\* The tables the concurrent callers pass: one column, pairs and groups of
\* three to MaxSeries columns, with a test that raises, rejects nothing or
\* rejects all.
ConcurrentTables ==
    {[n_assets |-> t.n_assets, test |-> t.test] :
        t \in {u \in FilterItems :
                 u.frame /\ u.n_assets >= 1 /\ u.n_assets <= MaxSeries}}

\* Variant: one JohansenCointegration object, made once, serves every call.
JohansenOfShared(c) == 1

\* joh = JohansenCointegration() (line 66): an object of the call's own.
JohansenOf(c) == c

\* Variant: the engine remembers the rank of its last result as min_rank.
EngineAfterEvaluateAdaptive(cfg, res) == [cfg EXCEPT !.min_rank = res.rank]

\* The engine's fields after evaluate_cluster (lines 94-105): the method
\* assigns to no attribute of self.
EngineAfterEvaluate(cfg, res) == cfg

InitConcurrent ==
    /\ self = StrategyDefaults
    /\ engine \in EngineConfigs
    /\ BacktestIdle
    /\ ClusterIdle
    /\ JohansenIdle
    /\ ConcurrentIdle

\* Caller c calls evaluate_cluster, with no call of its own in flight.
CallEvaluate(c) ==
    /\ calls[c].cpc \in {"idle", "done", "raised"}
    /\ \E t \in ConcurrentTables :
        calls' = [calls EXCEPT ![c] =
                     [cpc |-> "find", prices |-> t, result |-> <<>>]]
    /\ UNCHANGED <<engine, objects>>
    /\ UNCHANGED <<cpc, prices, result, filterVars>>
    /\ UNCHANGED <<backtestVars, johansenVars>>

\* Lines 45-67 and 71-74 in c's call: the pairwise test and its handler,
\* or a new Johansen object and its fit, or the fallback result.
CallFind(c) ==
    /\ calls[c].cpc = "find"
    /\ LET t == calls[c].prices
       IN  IF IsGroup(t.n_assets) /\ ~IsPair(t.n_assets)
           THEN /\ objects' = [objects EXCEPT ![JohansenOf(c)] =
                                   IF t.test.raised THEN None ELSE t.test]
                /\ calls' = [calls EXCEPT ![c] =
                      IF t.test.raised
                      THEN [@ EXCEPT !.cpc = "score",
                                     !.result =
                                         FindCointegratedGroups(engine, t)]
                      ELSE [@ EXCEPT !.cpc = "summary"]]
           ELSE /\ calls' = [calls EXCEPT ![c] =
                      [@ EXCEPT !.cpc = "score",
                                !.result = FindCointegratedGroups(engine, t)]]
                /\ UNCHANGED objects
    /\ UNCHANGED engine
    /\ UNCHANGED <<cpc, prices, result, filterVars>>
    /\ UNCHANGED <<backtestVars, johansenVars>>

\* Lines 68-70 in c's call: the summary of the object, with the method.
CallSummary(c) ==
    /\ calls[c].cpc = "summary"
    /\ LET obj == objects[JohansenOf(c)]
           summary == IF obj = None THEN <<>> ELSE JohansenSummary(obj)
       IN  calls' = [calls EXCEPT ![c] =
                        [@ EXCEPT !.cpc = "score",
                                  !.result =
                                      [method |-> "Johansen"] @@ summary]]
    /\ UNCHANGED <<engine, objects>>
    /\ UNCHANGED <<cpc, prices, result, filterVars>>
    /\ UNCHANGED <<backtestVars, johansenVars>>

\* Lines 100-105 in c's call: the score, the validity flag, the return;
\* result["rank"] raises KeyError when the summary was empty.
CallScore(c) ==
    /\ calls[c].cpc = "score"
    /\ LET res == calls[c].result
       IN  IF "rank" \in DOMAIN res
           THEN /\ calls' = [calls EXCEPT ![c] =
                      [@ EXCEPT !.cpc = "done",
                                !.result =
                                    [score |-> Round(ClusterScore(res), 3),
                                     valid |-> IsValid(res, engine)] @@ res]]
                /\ engine' = EngineAfterEvaluate(engine, res)
           ELSE /\ calls' = [calls EXCEPT ![c] = [@ EXCEPT !.cpc = "raised"]]
                /\ UNCHANGED engine
    /\ UNCHANGED objects
    /\ UNCHANGED <<cpc, prices, result, filterVars>>
    /\ UNCHANGED <<backtestVars, johansenVars>>

\* A step of one of the callers.
NextConcurrent ==
    \E c \in Callers :
        \/ CallEvaluate(c)
        \/ CallFind(c)
        \/ CallSummary(c)
        \/ CallScore(c)

SpecConcurrent == InitConcurrent /\ [][NextConcurrent]_vars

\* Calls on the two shared instances: one run_backtest on the strategy, or
\* concurrent evaluate_cluster calls on the cluster engine.
NextShared ==
    \/ (\A c \in Callers : calls[c].cpc = "idle") /\ NextBacktest
    \/ pc = "idle" /\ NextConcurrent

SpecShared == Init /\ [][NextShared]_vars

\* ============================================================ properties
\* Stages of a run_backtest call that the current state is past.
FullMetrics == pc = "done" /\ "avg_beta" \in DOMAIN ret

\* Line 81 was executed: beta, spread and zscore exist.
BetaComputed ==
    \/ pc \in {"coint", "positions"}
    \/ pc = "raised" /\ ret.line \in {86, 93, 116}
    \/ FullMetrics

\* Line 92 was executed: pvals is padded, coint_mask and positions exist.
MaskComputed ==
    \/ pc = "positions"
    \/ pc = "raised" /\ ret.line \in {93, 116}
    \/ FullMetrics

\* Lines 93-95 were executed: the three signal series exist.
SignalsComputed ==
    \/ pc = "positions"
    \/ pc = "raised" /\ ret.line = 116
    \/ FullMetrics

\* The Python indices whose position the loop of lines 97-105 has decided.
Decided == IF SignalsComputed THEN 1..(i - 1) ELSE {}

\* C1: every decided position follows the priority order LONG if long_entry,
\* else SHORT if short_entry, else FLAT if exit_trade, else the previous
\* position; so long wins over short and an entry wins over an exit.
C1_PriorityOrder ==
    \A j \in Decided :
        Py(positions, j) =
            IF Py(long_entry, j) THEN 1
            ELSE IF Py(short_entry, j) THEN -1
            ELSE IF Py(exit_trade, j) THEN 0
            ELSE Py(positions, j - 1)

\* C1 witness: an index where both entries and the exit signal are true was
\* decided LONG.
C1_Witness ==
    \E j \in Decided :
        /\ Py(long_entry, j) /\ Py(short_entry, j) /\ Py(exit_trade, j)
        /\ Py(positions, j) = 1

\* C2: the position sequence has the length of the input, starts FLAT and
\* holds only FLAT (0), LONG (1) and SHORT (-1).
C2_PositionShape ==
    MaskComputed =>
        /\ Len(positions) = Len(x)
        /\ Len(x) >= 1 => positions[1] = 0
        /\ \A k \in 1..Len(positions) : positions[k] \in {0, 1, -1}

\* C2 witness: a finished position loop over a series of at least four
\* bars that went LONG at two indices in a row.
C2_Witness ==
    /\ SignalsComputed
    /\ i >= Len(x)
    /\ Len(x) >= 4
    /\ \E j \in 1..(Len(x) - 1) :
          /\ Py(long_entry, j) /\ Py(long_entry, j - 1)
          /\ Py(positions, j) = 1 /\ Py(positions, j - 1) = 1

\* C3: a LONG (SHORT) position at a decided index has its entry signal at
\* that index, or continues a LONG (SHORT) position with no exit signal; so
\* it goes back to an entry signal with no exit taken on the way.
C3_EntryOrCarry ==
    \A j \in Decided :
        /\ Py(positions, j) = 1 =>
              \/ Py(long_entry, j)
              \/ Py(positions, j - 1) = 1 /\ ~Py(exit_trade, j)
        /\ Py(positions, j) = -1 =>
              \/ Py(short_entry, j)
              \/ Py(positions, j - 1) = -1 /\ ~Py(exit_trade, j)
        /\ Py(positions, j) # 0 =>
              \E e \in 1..j :
                  /\ IF Py(positions, j) = 1
                     THEN Py(long_entry, e) ELSE Py(short_entry, e)
                  /\ \A k \in (e + 1)..j :
                        /\ ~Py(exit_trade, k)
                        /\ Py(positions, k) = Py(positions, j)

\* C3 witness: a LONG position carried over an index without entry signal.
C3_Witness ==
    \E j \in Decided :
        /\ Py(positions, j) = 1
        /\ ~Py(long_entry, j)
        /\ Py(positions, j - 1) = 1

\* C4: long_entry is (zscore < -entry_z) and coint_mask, short_entry is
\* (zscore > entry_z) and coint_mask, exit_trade is (|zscore| < exit_z) or
\* not coint_mask; a NaN z-score makes each comparison false.
C4_SignalDefinitions ==
    SignalsComputed =>
        \A k \in 1..Len(x) :
            /\ long_entry[k] <=>
                  (FLess(zscore[k], SSq(FNeg(entry_z))) /\ coint_mask[k])
            /\ short_entry[k] <=>
                  (FLess(SSq(entry_z), zscore[k]) /\ coint_mask[k])
            /\ exit_trade[k] <=>
                  (FLess(FAbs(zscore[k]), SSq(exit_z)) \/ ~coint_mask[k])
            /\ IsNaN(zscore[k]) =>
                  /\ ~long_entry[k] /\ ~short_entry[k]
                  /\ exit_trade[k] <=> ~coint_mask[k]

\* C4 witness: one run with a long entry at one index and, at another, a
\* NaN z-score under a true mask (no entry, no exit).
C4_Witness ==
    /\ SignalsComputed
    /\ \E k \in 1..Len(x) : long_entry[k]
    /\ \E k \in 1..Len(x) :
          /\ IsNaN(zscore[k]) /\ coint_mask[k]
          /\ ~long_entry[k] /\ ~short_entry[k] /\ ~exit_trade[k]

C6_MaskPerIndex ==
    MaskComputed =>
        /\ Len(coint_mask) = Len(x)
        /\ \A k \in 1..Len(coint_mask) :
              coint_mask[k] <=>
                  (k - 1 >= lookback /\ FLess(pvals[k], coint_pval))

\* C7: the hedge-ratio series has the length of the input and holds no NaN
\* after the forward and backward fill.
C7_NoNaNAfterFill ==
    BetaComputed =>
        /\ Len(beta) = Len(x)
        /\ \A k \in 1..Len(beta) : ~IsNaN(beta[k])

C9_DispatchByCardinality ==
    cpc \in {"score", "done"} =>
        /\ prices.n_assets = 2 <=> result.method = "Engle-Granger"
        /\ prices.n_assets >= 3 <=> result.method = "Johansen"

\* C9 witness: a finished evaluation of three series whose test raised.
C9_Witness ==
    /\ cpc = "done"
    /\ prices.n_assets = 3
    /\ prices.test.raised
    /\ result.method = "Johansen"

\* C10: for two series, rank is 1 if the p-value of the test is below
\* p_threshold and 0 otherwise, and the result is valid iff rank is 1, that
\* is iff its pvalue is below p_threshold.
C10_PairRankValid ==
    (cpc = "done" /\ prices.n_assets = 2) =>
        /\ result.rank =
              IF ~prices.test.raised
                 /\ FLess(prices.test.pval, engine.p_threshold)
              THEN 1 ELSE 0
        /\ result.valid <=> result.rank = 1
        /\ result.valid <=> FLess(result.pvalue, engine.p_threshold)

\* C10 witness: a pair whose p-value equals the threshold is evaluated
\* with rank 0 and not valid.
C10_Witness ==
    /\ cpc = "done"
    /\ prices.n_assets = 2
    /\ ~prices.test.raised
    /\ prices.test.pval = engine.p_threshold
    /\ result.rank = 0
    /\ ~result.valid

\* The score of a finished evaluation lies in [0, 1].
ScoreInUnitInterval ==
    /\ IsFinite(result.score)
    /\ ~FLess(result.score, FInt(0))
    /\ ~FLess(FInt(1), result.score)

\* C11 as stated: the score lies in [0, 1] and is exactly max(0, 1 - pvalue)
\* for a pairwise result and exactly min(1, rank / 3) for a multivariate
\* one.
C11_ScorePolicyExact ==
    cpc = "done" =>
        /\ ScoreInUnitInterval
        /\ result.method = "Engle-Granger" =>
              result.score = FMax(FInt(0), FSub(FInt(1), result.pvalue))
        /\ result.method = "Johansen" =>
              result.score = FMin(FInt(1), Frac(result.rank, 3))

\* C11: the score lies in [0, 1] and is max(0, 1 - pvalue) for a pairwise
\* result and min(1, rank / 3) for a multivariate one, rounded to three
\* decimals; a multivariate rank of 3 or more scores 1 for every
\* configuration and every number of series.
C11_ScorePolicyRounded ==
    cpc = "done" =>
        /\ ScoreInUnitInterval
        /\ result.method = "Engle-Granger" =>
              result.score =
                  Round(FMax(FInt(0), FSub(FInt(1), result.pvalue)), 3)
        /\ result.method = "Johansen" =>
              /\ result.score = Round(FMin(FInt(1), Frac(result.rank, 3)), 3)
              /\ result.rank >= 3 => result.score = FInt(1)

\* C11 witness: a multivariate result of rank 2 over four series scores
\* 0.667, the rounded value of 2 / 3.
C11_Witness ==
    /\ cpc = "done"
    /\ prices.n_assets = 4
    /\ result.method = "Johansen"
    /\ result.rank = 2
    /\ result.score = Frac(667, 1000)

\* C12: for three or more series the result is valid iff its rank is at
\* least the configured min_rank.
C12_GroupValidity ==
    (cpc = "done" /\ prices.n_assets >= 3) =>
        (result.valid <=> result.rank >= engine.min_rank)

\* C12 witness: a group whose rank equals min_rank = 2 is valid.
C12_Witness ==
    /\ cpc = "done"
    /\ prices.n_assets >= 3
    /\ ~prices.test.raised
    /\ engine.min_rank = 2
    /\ result.rank = 2
    /\ result.valid

RECURSIVE SequentialCount(_, _, _)
\* The sequential trace test from row j on: rows are counted until the
\* first statistic that does not exceed its critical value.
SequentialCount(lr1, crit, j) ==
    IF j > Len(lr1) \/ ~(lr1[j] > crit[j]) THEN 0
    ELSE 1 + SequentialCount(lr1, crit, j + 1)

\* Column c of a critical-value table.
CritColumn(cvt, c) == [j \in 1..Len(cvt) |-> cvt[j][c]]

\* C13: rank() counts the trace statistics above their critical value from
\* the lowest hypothesized rank upward and stops at the first one that is
\* not above it.
C13_SequentialRank ==
    (jret.kind = "value" /\ jret.call = "rank") =>
        jret.value =
            SequentialCount(joh.result.lr1, CritColumn(joh.result.cvt, 2), 1)

\* The column of cvt that holds the critical values of a significance
\* level: 90%, 95%, 99%.
SignificanceColumn(sig) ==
    IF sig = Frac(1, 10) THEN 1 ELSE IF sig = Frac(5, 100) THEN 2 ELSE 3

\* C14: rank() compares the trace statistics with the critical values of
\* the column of the configured significance level.
C14_ConfiguredColumn ==
    (jret.kind = "value" /\ jret.call = "rank") =>
        jret.value =
            LET crit == CritColumn(joh.result.cvt,
                                   SignificanceColumn(joh.significance))
            IN  Cardinality({j \in 1..Len(crit) : joh.result.lr1[j] > crit[j]})

\* The statistical test of a mapping entry was run and raised.
TestFailed(data) == data.frame /\ data.n_assets >= 2 /\ data.test.raised

C16_InvalidClusterSizeRaises ==
    cpc = "done" =>
        /\ prices.n_assets >= 2
        /\ prices.n_assets <= engine.max_assets

\* C16: a cluster of fewer than 2 series is evaluated to the result with
\* method "N/A", rank 0, pvalue 1.0, score 0 and valid false; one of more
\* than max_assets series is evaluated by the Johansen test like any other
\* group; filter_valid_clusters returns neither, skipping the second.
C16_ClusterSizeHandling ==
    /\ cpc = "done" =>
          /\ prices.n_assets < 2 =>
                result = [method |-> "N/A", rank |-> 0, pvalue |-> FInt(1),
                          score |-> FInt(0), valid |-> FALSE]
          /\ prices.n_assets > engine.max_assets =>
                /\ result.method = "Johansen"
                /\ result.valid <=> result.rank >= engine.min_rank
    /\ cpc = "filtered" =>
          \A n \in 1..Len(cluster_dict) :
              LET data == cluster_dict[n]
              IN  (data.frame /\ (\/ data.n_assets < 2
                                  \/ data.n_assets > engine.max_assets)) =>
                      n \notin DOMAIN valid_clusters

\* C16 witness: a mapping with a cluster of four series and full rank, on
\* an engine of max_assets 3, is filtered to the empty mapping.
C16_Witness ==
    /\ cpc = "filtered"
    /\ engine.max_assets = 3
    /\ Len(cluster_dict) = 1
    /\ cluster_dict[1].frame
    /\ cluster_dict[1].n_assets = 4
    /\ EvaluateClusterResult(engine, cluster_dict[1]).valid
    /\ valid_clusters = <<>>

\* The names filter_valid_clusters has to return: DataFrames of at most
\* max_assets columns whose evaluation is valid.
ValidNames ==
    {n \in 1..Len(cluster_dict) :
        /\ cluster_dict[n].frame
        /\ cluster_dict[n].n_assets <= engine.max_assets
        /\ EvaluateClusterResult(engine, cluster_dict[n]).valid}

\* What filter_valid_clusters returned is the evaluation of the names it
\* has to return.
FilterResultExact ==
    cpc = "filtered" =>
        /\ DOMAIN valid_clusters = ValidNames
        /\ \A n \in ValidNames :
              valid_clusters[n] =
                  EvaluateClusterResult(engine, cluster_dict[n])

\* A step of a filter_valid_clusters call leaves its inputs alone.
FilterInputsUnchanged ==
    cpc \in {"filter", "filtered"} =>
        (cluster_dict' = cluster_dict /\ engine' = engine)

\* C18: filter_valid_clusters returns exactly the names whose cluster has
\* at most max_assets series and a valid evaluate_cluster result, each
\* mapped to that result, and no other name; from the call to the return
\* the mapping passed in and the engine's configuration do not change.
C18_PureFilter == []FilterResultExact /\ [][FilterInputsUnchanged]_vars

\* C18 witness: a cluster of exactly max_assets = 3 series is returned and
\* a pair whose test did not reject is left out.
C18_Witness ==
    /\ cpc = "filtered"
    /\ engine.max_assets = 3
    /\ Len(cluster_dict) = 2
    /\ cluster_dict[1].frame /\ cluster_dict[1].n_assets = 3
    /\ cluster_dict[2].frame /\ cluster_dict[2].n_assets = 2
    /\ ~cluster_dict[2].test.raised
    /\ DOMAIN valid_clusters = {1}

\* The metrics of the early return of run_backtest (line 72).
ZeroMetrics ==
    [kind |-> "metrics", total_return |-> FInt(0), sharpe |-> FInt(0),
     trades |-> 0]

\* C17 as stated: run_backtest returns no metrics for a series shorter than
\* the minimum, and the pairwise cluster test returns no result when the
\* test cannot be computed; both fail instead.
C17_InsufficientDataRaises ==
    /\ pc = "done" => Len(x) >= self.min_valid
    /\ (cpc = "done" /\ prices.n_assets = 2) => ~prices.test.raised

\* C17: run_backtest ends with the metrics total_return 0.0, sharpe 0.0,
\* trades 0 and no other key exactly when the series is shorter than
\* min_valid; a pair whose test cannot be computed is evaluated to the
\* result with rank 0, pvalue 1.0, score 0, valid false and an error text.
C17_ShortInputHandling ==
    /\ pc \in {"done", "raised"} =>
          (Len(x) < self.min_valid <=> (pc = "done" /\ ret = ZeroMetrics))
    /\ (cpc = "done" /\ prices.n_assets = 2 /\ prices.test.raised) =>
          result = [method |-> "Engle-Granger", rank |-> 0,
                    pvalue |-> FInt(1), error |-> "coint",
                    score |-> FInt(0), valid |-> FALSE]

\* C17 witness: a call with one price per series, fewer than min_valid = 2,
\* returned the three zero metrics.
C17_Witness ==
    /\ pc = "done"
    /\ Len(x) = 1
    /\ self.min_valid = 2
    /\ ret = ZeroMetrics

\* The loop of lines 97-105 has ended and the call is over.
PositionsDecided == SignalsComputed /\ pc \in {"done", "raised"}

\* The portfolio returns of C20 for steps t = 1..n-1 (Python indices):
\* position[t-1] * (diff_y[t] - beta[t] * diff_x[t]), undefined values
\* replaced by 0.
LaggedPortRet ==
    LET diff_y == FillNa0(Diff(FillNa0(PctChange(y))))
        diff_x == FillNa0(Diff(FillNa0(PctChange(x))))
    IN  FillNa0([t \in 1..(Len(x) - 1) |->
            FMul(FInt(Py(positions, t - 1)),
                 FSub(Py(diff_y, t), FMul(Py(beta, t), Py(diff_x, t))))])

\* C20: a run whose positions are decided ends with the metrics of the
\* portfolio returns position[t-1] * (diff_y[t] - beta[t] * diff_x[t]),
\* t = 1..n-1, of the first differences of the percentage returns.
C20_LaggedPortfolioReturn ==
    PositionsDecided =>
        /\ pc = "done"
        /\ ret.total_return =
              Round(FSub(ProdOnePlus(LaggedPortRet, Len(LaggedPortRet)),
                         FInt(1)), 4)

\* C19: a run whose positions are decided ends by reporting as trades the
\* number of indices i >= 1 with position[i] # position[i-1].
C19_TradeCount ==
    PositionsDecided =>
        /\ pc = "done"
        /\ ret.trades =
              Cardinality({k \in 1..(Len(positions) - 1) :
                              Py(positions, k) # Py(positions, k - 1)})

\* Every entry of a series is the same price.
IsConstant(s) == \A k \in 1..Len(s) : s[k] = s[1]

\* C21: a call on constant series x and y of an accepted length completes
\* with zscore NaN at every index, position FLAT at every index,
\* total_return 0 and trade count 0.
C21_ConstantSeries ==
    (/\ pc \in {"done", "raised"}
     /\ Len(x) >= self.min_valid
     /\ IsConstant(x) /\ IsConstant(y)) =>
        /\ pc = "done"
        /\ Len(zscore) = Len(x)
        /\ \A k \in 1..Len(x) : IsNaN(zscore[k]) /\ positions[k] = 0
        /\ ret.total_return = FInt(0)
        /\ ret.trades = 0

\* C22: two finished evaluate_cluster calls on one engine with the same
\* table have the same result, whatever other calls ran before or between
\* them.
C22_Deterministic ==
    \A c, d \in Callers :
        (/\ calls[c].cpc = "done"
         /\ calls[d].cpc = "done"
         /\ calls[c].prices = calls[d].prices) =>
            calls[c].result = calls[d].result

\* C22 witness: both callers have finished a call on the same group of
\* three series, whose test did not raise.
C22_Witness ==
    /\ calls[1].cpc = "done"
    /\ calls[2].cpc = "done"
    /\ calls[1].prices = calls[2].prices
    /\ calls[1].prices.n_assets = 3
    /\ ~calls[1].prices.test.raised
    /\ calls[1].result.rank = 3

\* No step changes a field of the strategy or of the cluster engine.
InstancesUnchanged == self' = self /\ engine' = engine

\* A finished concurrent call has the result of the same call run alone,
\* and no concurrent call ends in an exception.
SameAsAlone ==
    \A c \in Callers :
        /\ calls[c].cpc # "raised"
        /\ calls[c].cpc = "done" =>
              calls[c].result = EvaluateClusterResult(engine, calls[c].prices)

C24_CompleteMetrics ==
    pc = "done" =>
        {"total_return", "sharpe", "trades", "avg_beta", "coint_valid_pct"}
            \subseteq DOMAIN ret

\* The last call on the object raised the exception exc.
JRaised(call, exc) ==
    jret.kind = "raise" /\ jret.call = call /\ jret.exc = exc

\* What the queries answer: RuntimeError or the empty mapping while the
\* object holds no result, values of the stored result otherwise.
QueriesFollowResult ==
    /\ jret.kind # "none" /\ jret.call = "rank" =>
          IF joh.result = None THEN JRaised("rank", "RuntimeError")
          ELSE /\ jret.kind = "value"
               /\ jret.value =
                     Cardinality({j \in 1..Len(joh.result.lr1) :
                         joh.result.lr1[j] > joh.result.cvt[j][2]})
    /\ jret.kind # "none" /\ jret.call = "cointegrating_vectors" =>
          IF joh.result = None
          THEN JRaised("cointegrating_vectors", "RuntimeError")
          ELSE /\ jret.kind = "value"
               /\ DOMAIN jret.value = 0..(joh.result.evec - 1)
    /\ jret.kind # "none" /\ jret.call = "summary" =>
          /\ jret.kind = "value"
          /\ IF joh.result = None THEN jret.value = <<>>
             ELSE /\ jret.value.trace_stats = joh.result.lr1
                  /\ jret.value.rank =
                        Cardinality({j \in 1..Len(joh.result.lr1) :
                            joh.result.lr1[j] > joh.result.cvt[j][2]})

\* Only a fit that returns gives the object a result, the result of its
\* argument, and a fitted object stays fitted.
ResultOnlyByFit ==
    /\ joh'.result # joh.result =>
          /\ jret'.kind = "value" /\ jret'.call = "fit"
          /\ joh'.result = jret'.arg.test
    /\ joh.result # None => joh'.result # None

\* C25: rank() and cointegrating_vectors() raise RuntimeError and
\* summary() returns the empty mapping as long as no fit() has succeeded on
\* the object; after a successful fit() all three answer from that fit's
\* result.
C25_FitBeforeQuery == []QueriesFollowResult /\ [][ResultOnlyByFit]_vars

\* C25 witness: rank() raised RuntimeError on an object whose only fit()
\* so far failed.
C25_Witness ==
    /\ joh.result = None
    /\ JRaised("rank", "RuntimeError")

\* fit() refuses, with ValueError, an argument that is not a table or has
\* fewer than three series; a fit() that returns has stored its result.
FitRejectsBadInput ==
    jret.kind # "none" /\ jret.call = "fit" =>
        /\ ~jret.arg.frame => JRaised("fit", "ValueError")
        /\ jret.arg.frame /\ jret.arg.n_assets < 3 =>
              JRaised("fit", "ValueError")
        /\ jret.kind = "value" => joh.result = jret.arg.test

\* A fit() that raises leaves the object as it was.
FailedFitKeepsResult ==
    jret'.kind = "raise" /\ jret'.call = "fit" => joh' = joh

\* A query after a failed fit() answers as it would have before it.
AnswersFromEarlierFit ==
    /\ jret.kind = "raise" /\ jret.call = "fit"
    /\ jret'.kind # "none" /\ jret'.call \in {"rank", "summary"}
    => /\ jret'.call = "rank" =>
             jret' = IF joh.result = None
                     THEN Raised("rank", "RuntimeError", 43)
                     ELSE Value("rank", JohansenRank(joh.result))
       /\ jret'.call = "summary" =>
             jret' = IF joh.result = None
                     THEN Value("summary", <<>>)
                     ELSE Value("summary", JohansenSummary(joh.result))

\* C26: fit() rejects an argument that is not a table or has fewer than 3
\* series with ValueError, and a fit() that fails, by rejection or because
\* the underlying test fails, leaves the stored result unchanged: an
\* unfitted object stays unfitted and a fitted one keeps answering rank()
\* and summary() from its earlier successful fit.
C26_FailedFitKeepsState ==
    /\ []FitRejectsBadInput
    /\ [][FailedFitKeepsResult]_vars
    /\ [][AnswersFromEarlierFit]_vars

\* C26 witness: a fitted object whose later fit() failed in the underlying
\* test.
C26_Witness ==
    /\ joh.result # None
    /\ JRaised("fit", "Exception")
    /\ jret.arg.frame /\ jret.arg.n_assets >= 3

\* C26 witness of the rejection: a fitted object refused a table of two
\* series.
C26_WitnessRejected ==
    /\ joh.result # None
    /\ JRaised("fit", "ValueError")
    /\ jret.arg.frame /\ jret.arg.n_assets = 2

\* C27: a position that is not FLAT at a decided index has a true
\* cointegration mask at that index; an open position is closed at the
\* first index where the mask is false; and every index below lookback is
\* FLAT.
C27_MaskGatesPositions ==
    SignalsComputed =>
        /\ \A j \in Decided :
              Py(positions, j) # 0 => Py(coint_mask, j)
        /\ \A j \in Decided :
              Py(positions, j - 1) # 0 /\ ~Py(coint_mask, j) =>
                  Py(positions, j) = 0
        /\ \A j \in 0..(Len(x) - 1) :
              j < lookback => Py(positions, j) = 0

\* C27 witness: a position opened under a true mask was closed at the next
\* index, where the mask is false and the z-score gives no exit of its own.
C27_Witness ==
    \E j \in Decided :
        /\ j >= lookback + 1
        /\ Py(positions, j - 1) # 0 /\ Py(coint_mask, j - 1)
        /\ ~Py(coint_mask, j)
        /\ ~FLess(FAbs(Py(zscore, j)), SSq(exit_z))
        /\ Py(positions, j) = 0

\* The thresholds of the call are in their intended order:
\* entry_z > 0 and 0 <= exit_z < entry_z.
ThresholdsOrdered ==
    /\ FLess(FInt(0), entry_z)
    /\ FLess(exit_z, entry_z)
    /\ exit_z = FInt(0) \/ FLess(FInt(0), exit_z)

\* C28: with entry_z > 0 and 0 <= exit_z < entry_z no index has both entry
\* signals true, and no index has an entry signal together with a z-score
\* inside the exit band |zscore| < exit_z.
C28_SignalsExclusive ==
    SignalsComputed /\ ThresholdsOrdered =>
        \A k \in 1..Len(x) :
            /\ ~(long_entry[k] /\ short_entry[k])
            /\ long_entry[k] \/ short_entry[k] =>
                  ~FLess(FAbs(zscore[k]), SSq(exit_z))

\* C28 witness: under ordered thresholds one run raised a long entry at
\* one index and a short entry at another.
C28_Witness ==
    /\ SignalsComputed /\ ThresholdsOrdered
    /\ \E k \in 1..Len(x) : long_entry[k] /\ ~short_entry[k]
    /\ \E k \in 1..Len(x) : short_entry[k] /\ ~long_entry[k]

\* C29: under every configuration the constructor accepts, a result of
\* evaluate_cluster with rank 0 is never marked valid and every result
\* marked valid has a score above 0; results of a failed test and of
\* clusters of fewer than two series included.
C29_RankZeroNeverValid ==
    cpc = "done" =>
        /\ result.rank = 0 => ~result.valid
        /\ result.valid => FLess(FInt(0), result.score)

\* C30: for every series of at least min_valid bars and every lookback of
\* at least 2, run_backtest runs to completion and returns the metrics; no
\* elementwise combination (z-score with mask at line 93, positions with
\* diff_y and hedge ratio with diff_x at line 116) meets operands of
\* different lengths, also when the series is no longer than lookback.
C30_RunsToCompletion ==
    (Len(x) >= self.min_valid /\ lookback >= 2 /\ pc \in {"done", "raised"})
        => pc = "done" /\ FullMetrics

====
